---------------------------- MODULE Spec2Model ----------------------------
(***************************************************************************)
(* Model of the Hue bridge layer of home-dashboard (src/myapp/hue.py) and  *)
(* of the screens that drive it (src/myapp/app.py).                        *)
(*                                                                         *)
(* Six specifications share this module:                                   *)
(*   SpecClient     one call of a BridgeClient operation (or create_user)  *)
(*                  against a bridge whose answers are drawn in Init;      *)
(*   SpecPairing    SettingsScreen.save and its worker threads;            *)
(*   SpecDiscovery  discover_bridges and its concurrent probes             *)
(*                  (FairSpecDiscovery: every probe eventually returns);   *)
(*   SpecConfig     load_config on a config file drawn in Init;            *)
(*   SpecRooms      MainScreen.fetch_rooms_async and its workers;          *)
(*   SpecLights     HueApp.open_room and the fetches of the lights screen. *)
(*                                                                         *)
(* Vendor payloads follow the shapes of the bridge's v1 REST API: a        *)
(* response is a JSON list of envelope objects or a JSON object, and the   *)
(* fields the code reads with a default (.get(k, default)) may be absent.  *)
(* A request that fails on the network or whose body is not JSON is the    *)
(* shape "neterr".                                                         *)
(***************************************************************************)
EXTENDS Integers, Sequences, FiniteSets, TLC

VARIABLES
  op, args, bridge, sent, recv, ret, pc,          \* one client call
  config, screen, linkButton, threads, posts,     \* pairing
  prefixes, pidx, futs, hits, dpc, result,        \* discovery
  netFailed, matched, probed,                     \* discovery, observed
  file, env, loaded, lpc,                         \* the config file and load_config
  clock, workers, main, room_lights, current      \* the rooms and lights screens

clientVars == <<op, args, bridge, sent, recv, ret, pc>>
pairVars == <<config, screen, linkButton, threads, posts>>
discVars == <<prefixes, pidx, futs, hits, dpc, result, netFailed, matched, probed>>
cfgVars == <<file, env, loaded, lpc>>
uiVars == <<clock, workers, main, room_lights, current>>
vars == <<clientVars, pairVars, discVars, cfgVars, uiVars>>

(***************************************************************************)
(* Bounds                                                                  *)
(***************************************************************************)
MaxItems == 2      \* longest envelope list the bridge answers with
PctSlack == 3      \* percents are drawn from -PctSlack .. 100 + PctSlack
MaxLights == 2     \* most entries in a lights / groups mapping
MaxSaves == 2      \* most presses of Save on the settings screen
LastHost == 3      \* hosts .1 .. .LastHost of a prefix are swept (254 in the source)
MaxWorkers == 2    \* probes that run at once (32 in the source)
MaxElems == 2      \* most members / elements of the JSON in the config file
MaxFetches == 3    \* most fetches started on the rooms screen
MaxThreads == 4    \* most worker threads the lights screen starts

(***************************************************************************)
(* Arithmetic: Python's round() on a quotient of integers (round half to   *)
(* even), min/max.                                                         *)
(***************************************************************************)
Max(a, b) == IF a >= b THEN a ELSE b
Min(a, b) == IF a <= b THEN a ELSE b

\* floor(n / d) for d > 0 and any integer n
FloorDiv(n, d) == IF n >= 0 THEN n \div d ELSE 0 - (((0 - n) + (d - 1)) \div d)

\* int(round(n / d)) for d > 0: nearest integer, ties go to the even one
Round(n, d) ==
  LET q == FloorDiv(n, d)
      r == n - q * d
  IN  IF 2 * r < d THEN q
      ELSE IF 2 * r > d THEN q + 1
      ELSE IF q % 2 = 0 THEN q ELSE q + 1

NativeMax == 254
HueMax == 65535

(***************************************************************************)
(* Strings are sequences of one-character strings, so "10" is             *)
(* <<"1", "0">>.  str(int) and int(str) on decimal strings, str.strip().   *)
(***************************************************************************)
DigitChars == <<"0", "1", "2", "3", "4", "5", "6", "7", "8", "9">>
DigitVal(c) == CHOOSE d \in 0..9 : DigitChars[d + 1] = c

RECURSIVE StrOfInt(_)
StrOfInt(n) ==
  IF n < 10 THEN <<DigitChars[n + 1]>>
  ELSE Append(StrOfInt(n \div 10), DigitChars[(n % 10) + 1])

RECURSIVE IntOfStr(_)
IntOfStr(s) ==
  IF Len(s) = 0 THEN 0
  ELSE 10 * IntOfStr(SubSeq(s, 1, Len(s) - 1)) + DigitVal(s[Len(s)])

RECURSIVE LStrip(_)
LStrip(s) == IF Len(s) > 0 /\ s[1] = " " THEN LStrip(Tail(s)) ELSE s

RECURSIVE RStrip(_)
RStrip(s) ==
  IF Len(s) > 0 /\ s[Len(s)] = " " THEN RStrip(SubSeq(s, 1, Len(s) - 1)) ELSE s

Strip(s) == RStrip(LStrip(s))

(***************************************************************************)
(* The vendor's success / error envelope                                   *)
(***************************************************************************)
Usernames == {<<"a", "b", "c">>, <<"x", "y", "z">>}
NoUser == <<>>

NoErr == [type |-> 0, description |-> "", address |-> ""]
ErrVals ==
  { [type |-> 101, description |-> "link button not pressed", address |-> "/"],
    [type |-> 1, description |-> "unauthorized user", address |-> "/lights"],
    [type |-> 3, description |-> "resource not available", address |-> "/lights/7"] }

\* one object of an envelope list: {"success": {...}}, {"error": {...}} or
\* an object with neither key; a success object may carry a username
Items ==
  { [k |-> "success", hasUser |-> TRUE, user |-> u, err |-> NoErr] :
      u \in Usernames }
  \cup { [k |-> "success", hasUser |-> FALSE, user |-> NoUser, err |-> NoErr] }
  \cup { [k |-> "error", hasUser |-> FALSE, user |-> NoUser, err |-> e] :
           e \in ErrVals }
  \cup { [k |-> "other", hasUser |-> FALSE, user |-> NoUser, err |-> NoErr] }

ItemLists == UNION { [1..n -> Items] : n \in 0..MaxItems }

NoBody == [none |-> TRUE]

NetErr == [shape |-> "neterr", items |-> <<>>, hasErr |-> FALSE, err |-> NoErr,
           body |-> NoBody]
ListResp(items) == [shape |-> "list", items |-> items, hasErr |-> FALSE,
                    err |-> NoErr, body |-> NoBody]
DictResp(body) == [shape |-> "dict", items |-> <<>>, hasErr |-> FALSE,
                   err |-> NoErr, body |-> body]
ErrDictResp(e) == [shape |-> "dict", items |-> <<>>, hasErr |-> TRUE,
                   err |-> e, body |-> NoBody]

\* a failed exchange, an envelope list, or an object with an "error" key
ErrorResps ==
  {NetErr} \cup { ListResp(l) : l \in ItemLists }
  \cup { ErrDictResp(e) : e \in ErrVals }

\* answers to a PUT or POST: the above, or some object without "error"
EnvelopeResps == ErrorResps \cup { DictResp(NoBody) }

\* answers to a GET whose payload is drawn from bodies
GetResps(bodies) == ErrorResps \cup { DictResp(b) : b \in bodies }

Return(v) == [kind |-> "return", exc |-> "", err |-> NoErr, value |-> v]
Raise(exc, e) == [kind |-> "raise", exc |-> exc, err |-> e, value |-> NoBody]
NoRet == [kind |-> "none", exc |-> "", err |-> NoErr, value |-> NoBody]

HasErrorItem(items) == \E i \in 1..Len(items) : items[i].k = "error"
FirstErrorItem(items) ==
  items[CHOOSE i \in 1..Len(items) :
          /\ items[i].k = "error"
          /\ \A j \in 1..(i - 1) : items[j].k # "error"]

\* a variant that inspects only the first item of a list
raise_if_error_first_item(resp) ==
  IF resp.shape = "list"
  THEN IF Len(resp.items) > 0 /\ resp.items[1].k = "error"
       THEN Raise("RuntimeError", resp.items[1].err)
       ELSE NoRet
  ELSE IF resp.shape = "dict" /\ resp.hasErr
       THEN Raise("RuntimeError", resp.err)
       ELSE NoRet

\* the error _raise_if_error raises on resp_json, NoRet when it returns it
raise_if_error(resp) ==
  IF resp.shape = "list"
  THEN IF HasErrorItem(resp.items)
       THEN Raise("RuntimeError", FirstErrorItem(resp.items).err)
       ELSE NoRet
  ELSE IF resp.shape = "dict" /\ resp.hasErr
       THEN Raise("RuntimeError", resp.err)
       ELSE NoRet

\* one HTTP exchange: the request that went out, the JSON that came back
Get(path) == [method |-> "GET", path |-> path, body |-> NoBody]
Put(path, body) == [method |-> "PUT", path |-> path, body |-> body]
Post(path, body) == [method |-> "POST", path |-> path, body |-> body]

Outcome(s, r, o) == [sent |-> s, recv |-> r, ret |-> o]

\* session.<verb>(...).json() followed by _raise_if_error: rest is the
\* outcome of the rest of the operation, reached only when neither raised
Exchange(req, resp, rest) ==
  IF resp.shape = "neterr"
  THEN Outcome(<<req>>, <<>>, Raise("RequestException", NoErr))
  ELSE IF raise_if_error(resp).kind = "raise"
       THEN Outcome(<<req>>, <<resp>>, raise_if_error(resp))
       ELSE Outcome(<<req>>, <<resp>>, rest)

(***************************************************************************)
(* Addressing: _api_url re-reads the persisted config on every call.       *)
(***************************************************************************)
NoId == <<>>
api_url(cfg, res, id, leaf) ==
  [host |-> cfg.bridge_ip, user |-> cfg.username, res |-> res, id |-> id,
   leaf |-> leaf]

(***************************************************************************)
(* StateNormalizer                                                         *)
(***************************************************************************)
\* pct = max(0, min(100, int(percent)))
clamp_percent(percent) == Max(0, Min(100, percent))

\* a variant that scales with the read path's ratio
to_native_bri_read_ratio(pct) ==
  Max(1, Min(NativeMax, Round(pct * 100, NativeMax)))

\* bri = max(1, min(254, int(round(pct * 254 / 100))))
to_native_bri(pct) == Max(1, Min(NativeMax, Round(pct * NativeMax, 100)))

\* obj.get("bri", 254); a raw value is
\* [k |-> "absent" | "nonnum" | "num", n |-> the number]
get_bri(raw) == IF raw.k = "absent" THEN [k |-> "num", n |-> NativeMax] ELSE raw

\* int(round(bri_raw * 100 / 254)) if bri_raw is a number, else 100 / 0 by on
read_bri(bri_raw, on) ==
  IF bri_raw.k = "num" THEN Round(bri_raw.n * 100, NativeMax)
  ELSE IF on THEN 100 ELSE 0

\* hue = int(round((hue_degrees % 360) * 65535 / 360.0))
to_native_hue(deg) == Round((deg % 360) * HueMax, 360)

\* sat = int(round(max(0, min(100, sat_percent)) * 254 / 100.0))
to_native_sat(sat) == Round(Max(0, Min(100, sat)) * NativeMax, 100)

\* ("hue" in obj) or (obj.get("colormode") in ("hs", "xy"))
supports_color(hasHue, colormode) == hasHue \/ colormode \in {"hs", "xy"}

\* a field is "absent", "true" or "false": d.get(key, default) and bool(v)
GetOr(v, default) == IF v = "absent" THEN default ELSE v
Truth(v) == v = "true"

(***************************************************************************)
(* Vendor payloads.  The fields of the nested state / action object are    *)
(* flattened into the record and count only when the object is present.    *)
(***************************************************************************)
Tri == {"absent", "true", "false"}
BriNums == {0 - 2, 0, 1, 127, 254, 256}
NumBri(n) == [k |-> "num", n |-> n]
AbsentBri == [k |-> "absent", n |-> 0]
NonNumBri == [k |-> "nonnum", n |-> 0]
BriRaws == {NumBri(n) : n \in BriNums} \cup {AbsentBri, NonNumBri}
ColorModes == {"absent", "hs", "xy", "ct"}

Light(hasName, hasState, on, bri, hasHue, cm) ==
  [hasName |-> hasName, name |-> IF hasName THEN "Lamp" ELSE "",
   hasState |-> hasState, on |-> on, bri |-> bri, hasHue |-> hasHue,
   colormode |-> cm]

LightInfos ==
  { Light(TRUE, TRUE, on, b, FALSE, "absent") : on \in Tri, b \in BriRaws }
  \cup { Light(TRUE, TRUE, "true", NumBri(254), h, cm) :
           h \in BOOLEAN, cm \in ColorModes }
  \cup { Light(FALSE, TRUE, "true", NumBri(254), FALSE, "absent"),
         Light(TRUE, FALSE, "absent", AbsentBri, FALSE, "absent") }

\* info.get("state", {}): the fields of an absent state object are absent
StateOf(info) ==
  IF info.hasState THEN info
  ELSE [info EXCEPT !.on = "absent", !.bri = AbsentBri, !.hasHue = FALSE,
                    !.colormode = "absent"]

K3 == <<"3">>
K7 == <<"7">>
K10 == <<"1", "0">>
LightKeys == {K3, K7, K10}

Mappings(keys, infos) ==
  UNION { [ks -> infos] : ks \in {x \in SUBSET keys : Cardinality(x) <= MaxLights} }

LightsPayloads == Mappings(LightKeys, LightInfos)

Group(type, hasState, any_on, hasAction, on, bri, hasHue, cm, hasLights, lights) ==
  [hasName |-> TRUE, name |-> "Den", type |-> type, hasState |-> hasState,
   any_on |-> any_on, hasAction |-> hasAction, on |-> on, bri |-> bri,
   hasHue |-> hasHue, colormode |-> cm, hasLights |-> hasLights,
   lights |-> lights]

MemberLists == {<<>>, <<K3>>, <<K3, K7>>, <<K7, K3>>, <<K10>>, <<K3, K3>>}

GroupInfos ==
  { Group("Room", hs, ao, ha, on, AbsentBri, FALSE, "absent", TRUE, <<K3>>) :
      hs \in BOOLEAN, ao \in Tri, ha \in BOOLEAN, on \in Tri }
  \cup { Group("Room", FALSE, "absent", TRUE, on, b, FALSE, "absent", TRUE, <<K3>>) :
           on \in {"true", "false"}, b \in BriRaws }
  \cup { Group(t, TRUE, "true", TRUE, "true", NumBri(254), FALSE, "absent", TRUE, <<K3>>) :
           t \in {"absent", "LightGroup", "Zone"} }
  \cup { Group("Room", TRUE, "true", TRUE, "true", NumBri(254), h, cm, TRUE, <<K3>>) :
           h \in BOOLEAN, cm \in ColorModes }

RoomMemberInfos ==
  { Group("Room", TRUE, "true", TRUE, "true", NumBri(254), FALSE, "absent", TRUE, l) :
      l \in MemberLists }
  \cup { Group("Room", TRUE, "true", TRUE, "true", NumBri(254), FALSE, "absent",
               FALSE, <<>>) }

GroupsPayloads == Mappings({K3, K7}, GroupInfos)

\* info.get("state", {}) and info.get("action", {}) of a group
GroupStateOf(info) ==
  IF info.hasState THEN info ELSE [info EXCEPT !.any_on = "absent"]
GroupActionOf(info) ==
  IF info.hasAction THEN info
  ELSE [info EXCEPT !.on = "absent", !.bri = AbsentBri, !.hasHue = FALSE,
                    !.colormode = "absent"]

GivenName(n) == [text |-> n, id |-> NoId]
DefaultName(prefix, key) == [text |-> prefix, id |-> key]

(***************************************************************************)
(* Pairing and the BridgeClient operations.  Each is the outcome of one    *)
(* call: the requests it sent, the JSON it received, and what it returned  *)
(* or raised.                                                              *)
(***************************************************************************)
Unexpected ==
  [type |-> 0, description |-> "Unexpected Hue response creating user.",
   address |-> ""]

HasUserItem(items) ==
  \E i \in 1..Len(items) : items[i].k = "success" /\ items[i].hasUser
FirstUserItem(items) ==
  items[CHOOSE i \in 1..Len(items) :
          /\ items[i].k = "success" /\ items[i].hasUser
          /\ \A j \in 1..(i - 1) : ~(items[j].k = "success" /\ items[j].hasUser)]

create_user(bridge_ip, resp) ==
  Exchange(Post([host |-> bridge_ip, user |-> <<>>, res |-> "api", id |-> NoId,
                 leaf |-> ""], [devicetype |-> "kivy-warmup#pi"]),
           resp,
           IF resp.shape = "list" /\ HasUserItem(resp.items)
                      THEN Return(FirstUserItem(resp.items).user)
                      ELSE Raise("RuntimeError", Unexpected))

light_entry(key, info) ==
  LET state == StateOf(info)
      on == Truth(GetOr(state.on, "false"))
  IN  [name |-> IF info.hasName THEN GivenName(info.name)
                ELSE DefaultName("Light", key),
       on |-> on,
       bri |-> read_bri(get_bri(state.bri), on),
       supports_color |-> supports_color(state.hasHue, state.colormode)]

KeyOf(data, i) == CHOOSE k \in DOMAIN data : IntOfStr(k) = i

list_lights_detailed(cfg, resp) ==
  Exchange(Get(api_url(cfg, "lights", NoId, "")), resp,
           IF resp.shape = "list" THEN Raise("AttributeError", NoErr)
                      ELSE Return([i \in {IntOfStr(k) : k \in DOMAIN resp.body} |->
                                     light_entry(KeyOf(resp.body, i),
                                                 resp.body[KeyOf(resp.body, i)])]))

light_is_on(cfg, light_id, resp) ==
  Exchange(Get(api_url(cfg, "lights", <<light_id>>, "")), resp,
           IF resp.shape = "list" THEN Raise("AttributeError", NoErr)
                      ELSE Return(Truth(GetOr(StateOf(resp.body).on, "false"))))

set_on(cfg, light_id, on, resp) ==
  Exchange(Put(api_url(cfg, "lights", <<light_id>>, "state"), [on |-> on]),
           resp, Return(resp))

\* a variant whose off test is pct < 0
set_brightness_strict_test(cfg, light_id, percent, resp) ==
  LET pct == clamp_percent(percent)
  IN  IF pct < 0 THEN set_on(cfg, light_id, FALSE, resp)
      ELSE Exchange(Put(api_url(cfg, "lights", <<light_id>>, "state"),
                        [on |-> TRUE, bri |-> to_native_bri(pct)]),
                    resp, Return(resp))

set_brightness(cfg, light_id, percent, resp) ==
  LET pct == clamp_percent(percent)
  IN  IF pct <= 0 THEN set_on(cfg, light_id, FALSE, resp)
      ELSE Exchange(Put(api_url(cfg, "lights", <<light_id>>, "state"),
                        [on |-> TRUE, bri |-> to_native_bri(pct)]),
                    resp, Return(resp))

set_color_hs(cfg, light_id, hue_degrees, sat_percent, resp) ==
  Exchange(Put(api_url(cfg, "lights", <<light_id>>, "state"),
               [on |-> TRUE, hue |-> to_native_hue(hue_degrees),
                sat |-> to_native_sat(sat_percent)]),
           resp, Return(resp))

\* a variant that prefers the last commanded action state
room_entry_action_first(key, info) ==
  LET st == GroupStateOf(info)
      act == GroupActionOf(info)
      on == Truth(GetOr(act.on, GetOr(st.any_on, "false")))
  IN  [name |-> IF info.hasName THEN GivenName(info.name)
                ELSE DefaultName("Room", key),
       on |-> on,
       bri |-> read_bri(get_bri(act.bri), on),
       supports_color |-> supports_color(act.hasHue, act.colormode)]

room_entry(key, info) ==
  LET st == GroupStateOf(info)
      act == GroupActionOf(info)
      on == Truth(GetOr(st.any_on, GetOr(act.on, "false")))
  IN  [name |-> IF info.hasName THEN GivenName(info.name)
                ELSE DefaultName("Room", key),
       on |-> on,
       bri |-> read_bri(get_bri(act.bri), on),
       supports_color |-> supports_color(act.hasHue, act.colormode)]

RoomKeys(groups) == {k \in DOMAIN groups : groups[k].type = "Room"}

list_rooms_detailed(cfg, resp) ==
  Exchange(Get(api_url(cfg, "groups", NoId, "")), resp,
           IF resp.shape = "list" THEN Raise("AttributeError", NoErr)
                      ELSE Return([i \in {IntOfStr(k) : k \in RoomKeys(resp.body)} |->
                                     room_entry(KeyOf(resp.body, i),
                                                resp.body[KeyOf(resp.body, i)])]))

room_is_on_value(data) ==
  LET st == GroupStateOf(data)
  IN  IF st.any_on # "absent" THEN Truth(st.any_on)
      ELSE Truth(GetOr(GroupActionOf(data).on, "false"))

room_is_on(cfg, group_id, resp) ==
  Exchange(Get(api_url(cfg, "groups", <<group_id>>, "")), resp,
           IF resp.shape = "list" THEN Raise("AttributeError", NoErr)
                      ELSE Return(room_is_on_value(resp.body)))

room_light_entry(lid, info) ==
  LET state == StateOf(info)
      on == Truth(GetOr(state.on, "false"))
  IN  [name |-> IF info.hasName THEN GivenName(info.name)
                ELSE DefaultName("Light", StrOfInt(lid)),
       on |-> on,
       bri |-> read_bri(get_bri(state.bri), on),
       supports_color |-> supports_color(state.hasHue, state.colormode)]

\* light_ids = [int(x) for x in group.get("lights", [])]
member_ids(group) ==
  LET members == IF group.hasLights THEN group.lights ELSE <<>>
  IN  [i \in 1..Len(members) |-> IntOfStr(members[i])]

\* a variant that returns every light of the full list
list_lights_detailed_for_room_unfiltered(cfg, room_id, resp1, resp2) ==
  LET first == Exchange(Get(api_url(cfg, "groups", <<room_id>>, "")), resp1,
                        IF resp1.shape = "list"
                                   THEN Raise("AttributeError", NoErr)
                                   ELSE NoRet)
      light_ids == member_ids(resp1.body)
      second == Exchange(Get(api_url(cfg, "lights", NoId, "")), resp2,
                  IF resp2.shape = "list"
                             THEN Raise("AttributeError", NoErr)
                             ELSE Return(
                               [lid \in {IntOfStr(k) : k \in DOMAIN resp2.body}
                                  |-> room_light_entry(lid, resp2.body[StrOfInt(lid)])]))
  IN  IF first.ret.kind # "none" THEN first
      ELSE IF Len(light_ids) = 0 THEN Outcome(first.sent, first.recv, Return(<<>>))
      ELSE Outcome(first.sent \o second.sent, first.recv \o second.recv,
                   second.ret)

list_lights_detailed_for_room(cfg, room_id, resp1, resp2) ==
  LET first == Exchange(Get(api_url(cfg, "groups", <<room_id>>, "")), resp1,
                        IF resp1.shape = "list"
                                   THEN Raise("AttributeError", NoErr)
                                   ELSE NoRet)
      light_ids == member_ids(resp1.body)
      second == Exchange(Get(api_url(cfg, "lights", NoId, "")), resp2,
                  IF resp2.shape = "list"
                             THEN Raise("AttributeError", NoErr)
                             ELSE Return(
                               [lid \in {light_ids[i] : i \in
                                          {j \in 1..Len(light_ids) :
                                             StrOfInt(light_ids[j]) \in DOMAIN resp2.body}}
                                  |-> room_light_entry(lid, resp2.body[StrOfInt(lid)])]))
  IN  IF first.ret.kind # "none" THEN first
      ELSE IF Len(light_ids) = 0 THEN Outcome(first.sent, first.recv, Return(<<>>))
      ELSE Outcome(first.sent \o second.sent, first.recv \o second.recv,
                   second.ret)

set_room_on(cfg, group_id, on, resp) ==
  Exchange(Put(api_url(cfg, "groups", <<group_id>>, "action"), [on |-> on]),
           resp, Return(resp))

set_room_brightness(cfg, group_id, percent, resp) ==
  LET pct == clamp_percent(percent)
  IN  IF pct <= 0 THEN set_room_on(cfg, group_id, FALSE, resp)
      ELSE Exchange(Put(api_url(cfg, "groups", <<group_id>>, "action"),
                        [on |-> TRUE, bri |-> to_native_bri(pct)]),
                    resp, Return(resp))

set_room_color_hs(cfg, group_id, hue_degrees, sat_percent, resp) ==
  Exchange(Put(api_url(cfg, "groups", <<group_id>>, "action"),
               [on |-> TRUE, hue |-> to_native_hue(hue_degrees),
                sat |-> to_native_sat(sat_percent)]),
           resp, Return(resp))

(***************************************************************************)
(* SpecClient: one call.  Init draws the operation, its arguments and the  *)
(* answers the bridge gives to its requests, in order; the operation's     *)
(* action runs it to its end.                                              *)
(***************************************************************************)
BridgeIp == <<"1", "0", ".", "0", ".", "0", ".", "5">>
EmptyConfig == [bridge_ip |-> <<>>, username |-> <<>>]
PairedConfig == [bridge_ip |-> BridgeIp, username |-> <<"a", "b", "c">>]

NoArgs == [id |-> 0, on |-> FALSE, percent |-> 0, hue_degrees |-> 0,
           sat_percent |-> 0, bridge_ip |-> <<>>]

Percents == (0 - PctSlack)..(100 + PctSlack)
Degrees == {0 - 90, 0, 12, 180, 359, 360, 725}
SatPercents == {0 - 5, 0, 25, 50, 100, 130}

\* no config file, no environment variable, load_config not called
Absent == [state |-> "missing", kind |-> "none", elems |-> <<>>]
Unset == [set |-> FALSE, s |-> <<>>]
NotLoaded == [kind |-> "none", cfg |-> <<>>]

CfgIdle ==
  /\ file = Absent
  /\ env = [HUE_BRIDGE_IP |-> Unset, HUE_USERNAME |-> Unset]
  /\ loaded = NotLoaded
  /\ lpc = "idle"

\* both screens as constructed: no fetch started, nothing scheduled
UiIdle ==
  /\ clock = <<>>
  /\ workers = <<>>
  /\ main = [gen_rooms |-> 0, rooms |-> <<>>, loading_rooms |-> FALSE]
  /\ room_lights = [room_id |-> 0 - 1, loading |-> FALSE, lights |-> <<>>]
  /\ current = "main"

PairIdle ==
  /\ screen = [bridge_ip |-> <<>>, username |-> <<>>]
  /\ linkButton = FALSE
  /\ threads = <<>>
  /\ posts = 0

DiscIdle ==
  /\ prefixes = <<>>
  /\ pidx = 0
  /\ futs = <<>>
  /\ hits = {}
  /\ dpc = "idle"
  /\ result = <<>>
  /\ netFailed = FALSE
  /\ matched = {}
  /\ probed = {}

ClientIdle ==
  /\ op = "none"
  /\ args = NoArgs
  /\ bridge = <<>>
  /\ sent = <<>>
  /\ recv = <<>>
  /\ ret = NoRet
  /\ pc = "idle"

One(resps) == { <<r>> : r \in resps }

InitClient ==
  /\ pc = "call" /\ sent = <<>> /\ recv = <<>> /\ ret = NoRet
  /\ config = PairedConfig /\ PairIdle /\ DiscIdle /\ CfgIdle /\ UiIdle
  /\ \/ /\ op = "create_user"
        /\ args = [NoArgs EXCEPT !.bridge_ip = BridgeIp]
        /\ bridge \in One(EnvelopeResps)
     \/ /\ op = "list_lights_detailed"
        /\ args = NoArgs
        /\ bridge \in One(GetResps(LightsPayloads))
     \/ /\ op = "light_is_on"
        /\ args \in {[NoArgs EXCEPT !.id = i] : i \in {3, 10}}
        /\ bridge \in One(GetResps(LightInfos))
     \/ /\ op \in {"set_on", "set_room_on"}
        /\ args \in {[NoArgs EXCEPT !.id = i, !.on = b] : i \in {3, 10}, b \in BOOLEAN}
        /\ bridge \in One(EnvelopeResps)
     \/ /\ op \in {"set_brightness", "set_room_brightness"}
        /\ args \in {[NoArgs EXCEPT !.id = 3, !.percent = p] : p \in Percents}
        /\ bridge \in One(EnvelopeResps)
     \/ /\ op \in {"set_color_hs", "set_room_color_hs"}
        /\ args \in {[NoArgs EXCEPT !.id = 3, !.hue_degrees = d, !.sat_percent = s] :
                       d \in Degrees, s \in SatPercents}
        /\ bridge \in One(EnvelopeResps)
     \/ /\ op = "list_rooms_detailed"
        /\ args = NoArgs
        /\ bridge \in One(GetResps(GroupsPayloads))
     \/ /\ op = "room_is_on"
        /\ args \in {[NoArgs EXCEPT !.id = i] : i \in {3, 7}}
        /\ bridge \in One(GetResps(GroupInfos))
     \/ /\ op = "list_lights_detailed_for_room"
        /\ args = [NoArgs EXCEPT !.id = 3]
        /\ \/ bridge \in { <<r, NetErr>> : r \in ErrorResps }
           \/ bridge \in { <<DictResp(g), r>> :
                             g \in RoomMemberInfos, r \in GetResps(LightsPayloads) }

Finish(o) ==
  /\ sent' = o.sent
  /\ recv' = o.recv
  /\ ret' = o.ret
  /\ pc' = "done"
  /\ UNCHANGED <<op, args, bridge, pairVars, discVars, cfgVars, uiVars>>

Call_create_user ==
  /\ pc = "call" /\ op = "create_user"
  /\ Finish(create_user(args.bridge_ip, bridge[1]))

Call_list_lights_detailed ==
  /\ pc = "call" /\ op = "list_lights_detailed"
  /\ Finish(list_lights_detailed(config, bridge[1]))

Call_light_is_on ==
  /\ pc = "call" /\ op = "light_is_on"
  /\ Finish(light_is_on(config, args.id, bridge[1]))

Call_set_on ==
  /\ pc = "call" /\ op = "set_on"
  /\ Finish(set_on(config, args.id, args.on, bridge[1]))

Call_set_brightness ==
  /\ pc = "call" /\ op = "set_brightness"
  /\ Finish(set_brightness(config, args.id, args.percent, bridge[1]))

Call_set_color_hs ==
  /\ pc = "call" /\ op = "set_color_hs"
  /\ Finish(set_color_hs(config, args.id, args.hue_degrees, args.sat_percent,
                         bridge[1]))

Call_list_rooms_detailed ==
  /\ pc = "call" /\ op = "list_rooms_detailed"
  /\ Finish(list_rooms_detailed(config, bridge[1]))

Call_room_is_on ==
  /\ pc = "call" /\ op = "room_is_on"
  /\ Finish(room_is_on(config, args.id, bridge[1]))

Call_list_lights_detailed_for_room ==
  /\ pc = "call" /\ op = "list_lights_detailed_for_room"
  /\ Finish(list_lights_detailed_for_room(config, args.id, bridge[1], bridge[2]))

Call_set_room_on ==
  /\ pc = "call" /\ op = "set_room_on"
  /\ Finish(set_room_on(config, args.id, args.on, bridge[1]))

Call_set_room_brightness ==
  /\ pc = "call" /\ op = "set_room_brightness"
  /\ Finish(set_room_brightness(config, args.id, args.percent, bridge[1]))

Call_set_room_color_hs ==
  /\ pc = "call" /\ op = "set_room_color_hs"
  /\ Finish(set_room_color_hs(config, args.id, args.hue_degrees,
                              args.sat_percent, bridge[1]))

NextClient ==
  \/ Call_create_user
  \/ Call_list_lights_detailed
  \/ Call_light_is_on
  \/ Call_set_on
  \/ Call_set_brightness
  \/ Call_set_color_hs
  \/ Call_list_rooms_detailed
  \/ Call_room_is_on
  \/ Call_list_lights_detailed_for_room
  \/ Call_set_room_on
  \/ Call_set_room_brightness
  \/ Call_set_room_color_hs

SpecClient == InitClient /\ [][NextClient]_vars

(***************************************************************************)
(* Properties of one client call                                           *)
(***************************************************************************)
Done == pc = "done"

\* a response that embeds a vendor error, and the first error it embeds
EmbedsError(r) ==
  \/ r.shape = "list" /\ \E i \in 1..Len(r.items) : r.items[i].k = "error"
  \/ r.shape = "dict" /\ r.hasErr
EmbeddedError(r) ==
  IF r.shape = "dict" THEN r.err
  ELSE LET first == CHOOSE i \in 1..Len(r.items) :
                      /\ r.items[i].k = "error"
                      /\ \A j \in 1..Len(r.items) :
                           r.items[j].k = "error" => i <= j
       IN  r.items[first].err

\* C1: whenever a response received by an operation (or by create_user)
\* embeds a vendor error, as a list item at any position or as the "error"
\* key of an object, the call ends by raising an error that carries that
\* error's type, description and address, and returns no data.
C1_ErrorIsRaised ==
  Done => \A i \in 1..Len(recv) :
            EmbedsError(recv[i]) =>
              /\ ret.kind = "raise"
              /\ ret.exc = "RuntimeError"
              /\ ret.err \in ErrVals
              /\ ret.err = EmbeddedError(recv[i])
              /\ ret.value = NoBody

C1_Witness ==
  /\ Done
  /\ op = "create_user"
  /\ Len(recv) = 1 /\ recv[1].shape = "list" /\ Len(recv[1].items) = 2
  /\ recv[1].items[1].k = "success" /\ recv[1].items[1].hasUser
  /\ recv[1].items[2].k = "error"
  /\ ret.kind = "raise" /\ ret.err = recv[1].items[2].err

ClaimedClamp(p) == IF p < 0 THEN 0 ELSE IF p > 100 THEN 100 ELSE p

\* C2: set_brightness and set_room_brightness send exactly one PUT; when the
\* percent clamped to [0,100] is 0 its body is {on: false} without bri, when
\* it is positive the body holds on: true and a bri in [1,254]; no request
\* of any operation carries bri = 0.
C2_BrightnessPut ==
  Done =>
    /\ op \in {"set_brightness", "set_room_brightness"} =>
         /\ Len(sent) = 1
         /\ sent[1].method = "PUT"
         /\ IF ClaimedClamp(args.percent) = 0
            THEN DOMAIN sent[1].body = {"on"} /\ sent[1].body.on = FALSE
            ELSE /\ {"on", "bri"} \subseteq DOMAIN sent[1].body
                 /\ sent[1].body.on = TRUE
                 /\ sent[1].body.bri \in 1..254
    /\ \A i \in 1..Len(sent) :
         "bri" \in DOMAIN sent[i].body => sent[i].body.bri # 0

C2_Witness ==
  /\ Done
  /\ op = "set_room_brightness"
  /\ args.percent < 0
  /\ Len(sent) = 1 /\ sent[1].body = [on |-> FALSE]

ListOps ==
  {"list_lights_detailed", "list_rooms_detailed", "list_lights_detailed_for_room"}

\* C3: the brightness percentage of every LightState / RoomState returned by
\* list_lights_detailed, list_rooms_detailed and
\* list_lights_detailed_for_room is an integer in [0,100], whatever bri the
\* vendor payload holds.
C3_BrightnessPctInRange ==
  (Done /\ op \in ListOps /\ ret.kind = "return") =>
    \A i \in DOMAIN ret.value : ret.value[i].bri \in 0..100

ClaimedOn(g) ==
  IF g.hasState /\ g.any_on # "absent" THEN g.any_on = "true"
  ELSE IF g.hasAction /\ g.on # "absent" THEN g.on = "true"
  ELSE FALSE

\* C8: list_rooms_detailed and room_is_on report on as the truth value of
\* state.any_on when it is present and of action.on (false when absent)
\* otherwise, and both report the same value for the same group payload.
C8_RoomOnPrecedence ==
  (Done /\ ret.kind = "return") =>
    /\ op = "list_rooms_detailed" =>
         /\ DOMAIN ret.value =
              {IntOfStr(k) : k \in {x \in DOMAIN bridge[1].body :
                                      bridge[1].body[x].type = "Room"}}
         /\ \A k \in DOMAIN bridge[1].body :
              bridge[1].body[k].type = "Room" =>
                /\ ret.value[IntOfStr(k)].on = ClaimedOn(bridge[1].body[k])
                /\ ret.value[IntOfStr(k)].on =
                     room_is_on(config, IntOfStr(k),
                                DictResp(bridge[1].body[k])).ret.value
    /\ op = "room_is_on" => ret.value = ClaimedOn(bridge[1].body)

C8_Witness ==
  /\ Done
  /\ op = "list_rooms_detailed"
  /\ ret.kind = "return"
  /\ \E k \in DOMAIN bridge[1].body :
       /\ bridge[1].body[k].type = "Room"
       /\ bridge[1].body[k].hasState /\ bridge[1].body[k].any_on = "true"
       /\ bridge[1].body[k].hasAction /\ bridge[1].body[k].on = "false"
       /\ ret.value[IntOfStr(k)].on = TRUE

Abs(x) == IF x < 0 THEN 0 - x ELSE x

\* C9: for every percent p in [1,100], the native value set_brightness sends
\* for p reads back, by the read formula, as a percent within 1 of p.
C9_BrightnessRoundTrip ==
  (Done /\ op = "set_brightness" /\ args.percent \in 1..100) =>
    /\ Len(sent) = 1
    /\ "bri" \in DOMAIN sent[1].body
    /\ Abs(read_bri(NumBri(sent[1].body.bri), TRUE) - args.percent) <= 1

C9_Witness ==
  /\ Done
  /\ op = "set_brightness"
  /\ args.percent = 25
  /\ sent[1].body.bri = 64
  /\ read_bri(NumBri(64), TRUE) = 25

MemberSet(g) ==
  IF g.hasLights THEN {IntOfStr(g.lights[i]) : i \in 1..Len(g.lights)} ELSE {}

\* C10: list_lights_detailed_for_room returns a mapping whose keys are
\* exactly the room's member light ids present in the full light list
\* fetched afterwards; a room without members yields the empty mapping and
\* no second request.
C10_RoomMemberResolution ==
  (Done /\ op = "list_lights_detailed_for_room" /\ ret.kind = "return") =>
    IF MemberSet(bridge[1].body) = {}
    THEN DOMAIN ret.value = {} /\ Len(sent) = 1
    ELSE /\ Len(sent) = 2
         /\ sent[2].path.res = "lights"
         /\ DOMAIN ret.value =
              {m \in MemberSet(bridge[1].body) :
                 \E k \in DOMAIN bridge[2].body : IntOfStr(k) = m}

C10_Witness ==
  /\ Done
  /\ op = "list_lights_detailed_for_room"
  /\ ret.kind = "return"
  /\ MemberSet(bridge[1].body) = {3, 7}
  /\ DOMAIN bridge[2].body = {K3, K10}
  /\ DOMAIN ret.value = {3}

(***************************************************************************)
(* SpecPairing: SettingsScreen.save.  save() runs on the UI thread and     *)
(* starts a worker; the worker first pairs (one POST) when no username was *)
(* typed, then writes the config.  The two worker steps are separate       *)
(* actions because other threads run between them.  The status label and  *)
(* the return to the main screen are scheduled UI callbacks and are left   *)
(* out.                                                                    *)
(***************************************************************************)
Padded(s) == <<" ">> \o s \o <<" ">>
OldUser == <<"o", "l", "d">>
IpInputs == {<<" ">>, Padded(BridgeIp)}
UserInputs == {<<" ">>, OldUser}

LinkButtonError ==
  [type |-> 101, description |-> "link button not pressed", address |-> "/"]
Unauthorized ==
  [type |-> 1, description |-> "unauthorized user", address |-> "/lights"]
ErrorItem(e) == [k |-> "error", hasUser |-> FALSE, user |-> NoUser, err |-> e]
UserItem(u) == [k |-> "success", hasUser |-> TRUE, user |-> u, err |-> NoErr]
PlainSuccess == [k |-> "success", hasUser |-> FALSE, user |-> NoUser, err |-> NoErr]
OtherItem == [k |-> "other", hasUser |-> FALSE, user |-> NoUser, err |-> NoErr]
Abc == <<"a", "b", "c">>
Xyz == <<"x", "y", "z">>

\* what the bridge may answer to the pairing POST
PairResps ==
  { NetErr, DictResp(NoBody),
    ListResp(<<PlainSuccess>>),
    ListResp(<<ErrorItem(LinkButtonError)>>),
    ListResp(<<ErrorItem(Unauthorized)>>),
    ListResp(<<OtherItem, UserItem(Xyz)>>),
    ListResp(<<UserItem(Abc), UserItem(Xyz)>>),
    ListResp(<<UserItem(Abc), ErrorItem(LinkButtonError)>>) }

\* the bridge issues a credential only while its link button is pressed
IssuesUser(r) == r.shape = "list" /\ HasUserItem(r.items)
BridgeAnswers == {r \in PairResps : IssuesUser(r) => linkButton}

NoResp == [shape |-> "none", items |-> <<>>, hasErr |-> FALSE, err |-> NoErr,
           body |-> NoBody]
NoWrite == [bridge_ip |-> <<>>, username |-> <<>>]

InitPairing ==
  /\ ClientIdle /\ DiscIdle /\ CfgIdle /\ UiIdle
  /\ config = EmptyConfig
  /\ screen = [bridge_ip |-> <<>>, username |-> <<>>]
  /\ linkButton = FALSE
  /\ threads = <<>>
  /\ posts = 0

\* the text fields of the settings screen are edited by the user
edit_bridge_ip(v) ==
  /\ screen' = [screen EXCEPT !.bridge_ip = v]
  /\ UNCHANGED <<config, linkButton, threads, posts, clientVars, discVars, cfgVars, uiVars>>

edit_username(v) ==
  /\ screen' = [screen EXCEPT !.username = v]
  /\ UNCHANGED <<config, linkButton, threads, posts, clientVars, discVars, cfgVars, uiVars>>

\* entering the screen shows the persisted config
on_pre_enter ==
  /\ screen' = [screen EXCEPT !.bridge_ip = config.bridge_ip,
                              !.username = config.username]
  /\ UNCHANGED <<config, linkButton, threads, posts, clientVars, discVars, cfgVars, uiVars>>

\* the physical link button and the end of its window
press_link_button ==
  /\ ~linkButton
  /\ linkButton' = TRUE
  /\ UNCHANGED <<config, screen, threads, posts, clientVars, discVars, cfgVars, uiVars>>

link_window_ends ==
  /\ linkButton
  /\ linkButton' = FALSE
  /\ UNCHANGED <<config, screen, threads, posts, clientVars, discVars, cfgVars, uiVars>>

NewThread(typed, ip, user) ==
  [typed |-> typed, ip |-> ip, user |-> user, pc |-> "work", posts |-> 0,
   resp |-> NoResp, error |-> NoRet, user_to_save |-> <<>>, wrote |-> FALSE,
   written |-> NoWrite, cfg_kept |-> TRUE]

save ==
  LET ip == Strip(screen.bridge_ip)
      user == Strip(screen.username)
  IN  /\ Len(threads) < MaxSaves
      /\ IF ip = <<>>
         THEN UNCHANGED threads
         ELSE threads' = Append(threads, NewThread(screen.bridge_ip, ip, user))
      /\ UNCHANGED <<config, screen, linkButton, posts, clientVars, discVars, cfgVars, uiVars>>

\* a variant whose failure path still writes the config
work_pair_saves_on_failure(t, resp) ==
  LET th == threads[t]
      o == create_user(th.ip, resp)
  IN  /\ th.pc = "work"
      /\ IF th.user = <<>>
         THEN /\ posts' = posts + Len(o.sent)
              /\ IF o.ret.kind = "return"
                 THEN /\ screen' = [screen EXCEPT !.username = o.ret.value]
                      /\ threads' = [threads EXCEPT ![t] =
                           [th EXCEPT !.pc = "save", !.posts = Len(o.sent),
                                      !.resp = resp,
                                      !.user_to_save = o.ret.value]]
                      /\ UNCHANGED config
                 ELSE /\ UNCHANGED screen
                      /\ config' = [bridge_ip |-> th.ip, username |-> th.user]
                      /\ threads' = [threads EXCEPT ![t] =
                           [th EXCEPT !.pc = "failed", !.posts = Len(o.sent),
                                      !.resp = resp, !.error = o.ret,
                                      !.cfg_kept = (config' = config)]]
         ELSE /\ threads' = [threads EXCEPT ![t] =
                   [th EXCEPT !.pc = "save", !.user_to_save = th.user]]
              /\ UNCHANGED <<screen, posts, config>>
      /\ UNCHANGED <<linkButton, clientVars, discVars, cfgVars, uiVars>>

\* work(), up to save_config: pair when no username was typed
work_pair(t, resp) ==
  LET th == threads[t]
      o == create_user(th.ip, resp)
  IN  /\ th.pc = "work"
      /\ UNCHANGED <<config, linkButton, clientVars, discVars, cfgVars, uiVars>>
      /\ IF th.user = <<>>
         THEN /\ posts' = posts + Len(o.sent)
              /\ IF o.ret.kind = "return"
                 THEN /\ screen' = [screen EXCEPT !.username = o.ret.value]
                      /\ threads' = [threads EXCEPT ![t] =
                           [th EXCEPT !.pc = "save", !.posts = Len(o.sent),
                                      !.resp = resp,
                                      !.user_to_save = o.ret.value]]
                 ELSE /\ UNCHANGED screen
                      /\ threads' = [threads EXCEPT ![t] =
                           [th EXCEPT !.pc = "failed", !.posts = Len(o.sent),
                                      !.resp = resp, !.error = o.ret,
                                      !.cfg_kept = (config' = config)]]
         ELSE /\ threads' = [threads EXCEPT ![t] =
                   [th EXCEPT !.pc = "save", !.user_to_save = th.user]]
              /\ UNCHANGED <<screen, posts>>

save_config(bridge_ip, username) == [bridge_ip |-> bridge_ip, username |-> username]

\* a variant that saves the username typed on the screen
work_save_typed_user(t) ==
  LET th == threads[t]
  IN  /\ th.pc = "save"
      /\ config' = save_config(th.ip, th.user)
      /\ threads' = [threads EXCEPT ![t] =
           [th EXCEPT !.pc = "saved", !.wrote = TRUE, !.written = config']]
      /\ UNCHANGED <<screen, linkButton, posts, clientVars, discVars, cfgVars, uiVars>>

\* work(), from save_config on
work_save(t) ==
  LET th == threads[t]
  IN  /\ th.pc = "save"
      /\ config' = save_config(th.ip, th.user_to_save)
      /\ threads' = [threads EXCEPT ![t] =
           [th EXCEPT !.pc = "saved", !.wrote = TRUE, !.written = config']]
      /\ UNCHANGED <<screen, linkButton, posts, clientVars, discVars, cfgVars, uiVars>>

NextPairing ==
  \/ \E v \in IpInputs : edit_bridge_ip(v)
  \/ \E v \in UserInputs : edit_username(v)
  \/ on_pre_enter
  \/ press_link_button
  \/ link_window_ends
  \/ save
  \/ \E t \in 1..Len(threads) : \E resp \in BridgeAnswers : work_pair(t, resp)
  \/ \E t \in 1..Len(threads) : work_save(t)

SpecPairing == InitPairing /\ [][NextPairing]_vars

(***************************************************************************)
(* Properties of pairing                                                   *)
(***************************************************************************)
\* the pairing answer the claims call a success, and the username it names
ClaimedSuccess(r) ==
  /\ r.shape = "list"
  /\ \A i \in 1..Len(r.items) : r.items[i].k # "error"
  /\ \E i \in 1..Len(r.items) : r.items[i].k = "success" /\ r.items[i].hasUser
ClaimedUsername(r) ==
  LET first == CHOOSE i \in 1..Len(r.items) :
                 /\ r.items[i].k = "success" /\ r.items[i].hasUser
                 /\ \A j \in 1..Len(r.items) :
                      (r.items[j].k = "success" /\ r.items[j].hasUser) => i <= j
  IN  r.items[first].user

\* s is typed with its surrounding blanks removed
IsTrimmed(s, typed) ==
  /\ s # <<>> /\ s[1] # " " /\ s[Len(s)] # " "
  /\ \E i \in 1..Len(typed) :
       /\ i + Len(s) - 1 <= Len(typed)
       /\ SubSeq(typed, i, i + Len(s) - 1) = s
       /\ \A j \in 1..Len(typed) :
            (j < i \/ j > i + Len(s) - 1) => typed[j] = " "

\* C4: when the bridge answers the pairing POST with a list without an error
\* item that holds a success object with a username, create_user returns
\* that username and the worker saves it with the bridge IP that was
\* supplied: right after its save_config the persisted config is
\* (bridge IP, bridge-issued username).
C4_PairingSuccess ==
  \A t \in 1..Len(threads) :
    (threads[t].user = <<>> /\ ClaimedSuccess(threads[t].resp)) =>
      /\ threads[t].pc \in {"save", "saved"}
      /\ threads[t].user_to_save = ClaimedUsername(threads[t].resp)
      /\ threads[t].pc = "saved" =>
           /\ threads[t].wrote
           /\ threads[t].written.username = ClaimedUsername(threads[t].resp)
           /\ IsTrimmed(threads[t].written.bridge_ip, threads[t].typed)

C4_Witness ==
  \E t \in 1..Len(threads) :
    /\ threads[t].typed = Padded(BridgeIp)
    /\ threads[t].user = <<>>
    /\ threads[t].resp = ListResp(<<OtherItem, UserItem(Xyz)>>)
    /\ threads[t].pc = "saved"
    /\ config = [bridge_ip |-> BridgeIp, username |-> Xyz]

\* C5: a pairing attempt that fails (link button not pressed, another vendor
\* error, a malformed answer, an unreachable bridge) has sent exactly one
\* POST, ends failed with an error raised, and has left the persisted
\* config as it was; no attempt sends more than one POST.
C5_PairingFailure ==
  /\ \A t \in 1..Len(threads) :
       /\ threads[t].posts <= 1
       /\ (threads[t].resp # NoResp /\ ~ClaimedSuccess(threads[t].resp)) =>
            threads[t].pc = "failed"
       /\ threads[t].pc = "failed" =>
            /\ threads[t].posts = 1
            /\ threads[t].error.kind = "raise"
            /\ ~threads[t].wrote
            /\ threads[t].cfg_kept
  /\ posts = Cardinality({t \in 1..Len(threads) : threads[t].resp # NoResp})

\* a failed attempt, then the button is pressed and a second attempt pairs
C5_Witness ==
  /\ Len(threads) >= 2
  /\ threads[1].pc = "failed"
  /\ threads[1].error.err = LinkButtonError
  /\ threads[2].pc = "saved"
  /\ threads[2].user = <<>>
  /\ ClaimedSuccess(threads[2].resp)
  /\ config = [bridge_ip |-> BridgeIp, username |-> threads[2].user_to_save]
  /\ posts = 2

(***************************************************************************)
(* SpecDiscovery: discover_bridges.  For each prefix every candidate is    *)
(* submitted to a thread pool; workers run probe() on the queued           *)
(* candidates in submission order; the calling thread takes the results as *)
(* they complete and adds the accepted IPs to hits.                        *)
(***************************************************************************)
Dot == <<".">>

\* ".".join(parts[:3]) + "." for the octets of the local address
PrefixOf(octets) ==
  StrOfInt(octets[1]) \o Dot \o StrOfInt(octets[2]) \o Dot
    \o StrOfInt(octets[3]) \o Dot

Fallback == << PrefixOf(<<192, 168, 1>>), PrefixOf(<<192, 168, 0>>),
               PrefixOf(<<10, 0, 0>>) >>

\* the socket either fails or yields the locally bound address
Socks ==
  { [ok |-> FALSE, ip |-> <<0, 0, 0, 0>>],
    [ok |-> TRUE, ip |-> <<192, 168, 1, 23>>],
    [ok |-> TRUE, ip |-> <<10, 0, 0, 7>>] }

primary_lan_prefixes(sock) ==
  LET found == IF sock.ok /\ Len(sock.ip) = 4 THEN <<PrefixOf(sock.ip)>> ELSE <<>>
  IN  IF found = <<>> THEN Fallback ELSE found

\* candidates = [f"{p}{i}" for i in range(1, 255)]
Candidate(p, i) == p \o StrOfInt(i)

\* what the network does to one probe: the GET raises (refused, timeout),
\* or answers with a status, a body and a server header
Net(r, k, p, b, h) ==
  [raises |-> r, ok |-> k, philip |-> p, bridge |-> b, ipbridge |-> h]
NetOutcomes ==
  { Net(TRUE, FALSE, FALSE, FALSE, FALSE),   \* refused or timed out
    Net(FALSE, FALSE, TRUE, TRUE, TRUE),     \* an error status
    Net(FALSE, TRUE, TRUE, TRUE, FALSE),     \* the body names the bridge
    Net(FALSE, TRUE, FALSE, FALSE, TRUE),    \* the server header does
    Net(FALSE, TRUE, TRUE, FALSE, FALSE),    \* half of the body text
    Net(FALSE, TRUE, FALSE, FALSE, FALSE) }  \* some other web server

None == <<>>
Value(ip) == [kind |-> "value", ip |-> ip]
Exc == [kind |-> "exc", ip |-> None]
NoResult == [kind |-> "none", ip |-> None]

\* a variant without the try / except around the request
probe_unguarded(ip, net) ==
  IF net.raises THEN Exc
  ELSE IF net.ok /\ ((net.philip /\ net.bridge) \/ net.ipbridge) THEN Value(ip)
  ELSE Value(None)

\* the result of the future that runs probe(ip)
probe(ip, net) ==
  IF net.raises THEN Value(None)
  ELSE IF net.ok
       THEN IF net.philip /\ net.bridge THEN Value(ip)
            ELSE IF net.ipbridge THEN Value(ip)
            ELSE Value(None)
       ELSE Value(None)

\* Python's order on strings: by code point, a proper prefix first
Ord(c) == IF c = "." THEN 46 ELSE 48 + DigitVal(c)

RECURSIVE StrLess(_, _)
StrLess(a, b) ==
  IF Len(b) = 0 THEN FALSE
  ELSE IF Len(a) = 0 THEN TRUE
  ELSE IF Ord(a[1]) # Ord(b[1]) THEN Ord(a[1]) < Ord(b[1])
  ELSE StrLess(Tail(a), Tail(b))

\* sorted(hits): the element at position i has i - 1 smaller ones
sorted(S) ==
  [i \in 1..Cardinality(S) |->
     CHOOSE x \in S : Cardinality({y \in S : StrLess(y, x)}) = i - 1]

Queued == [st |-> "queued", res |-> NoResult]
AllTaken == \A i \in DOMAIN futs : futs[i].st = "taken"
Running == {i \in DOMAIN futs : futs[i].st = "running"}

InitDiscovery ==
  /\ ClientIdle
  /\ config = EmptyConfig /\ PairIdle
  /\ DiscIdle /\ CfgIdle /\ UiIdle

\* discover_bridges is called: the prefixes to sweep
begin(sock) ==
  /\ dpc = "idle"
  /\ prefixes' = primary_lan_prefixes(sock)
  /\ dpc' = "sweep"
  /\ UNCHANGED <<pidx, futs, hits, result, netFailed, matched, probed,
                 clientVars, pairVars, cfgVars, uiVars>>

\* a variant that starts every prefix with an empty set of hits
submit_prefix_fresh_hits ==
  /\ dpc = "sweep"
  /\ AllTaken
  /\ pidx < Len(prefixes)
  /\ pidx' = pidx + 1
  /\ futs' = [i \in 1..LastHost |-> Queued]
  /\ hits' = {}
  /\ UNCHANGED <<prefixes, dpc, result, netFailed, matched, probed,
                 clientVars, pairVars, cfgVars, uiVars>>

\* the next prefix: one future per candidate, all submitted
submit_prefix ==
  /\ dpc = "sweep"
  /\ AllTaken
  /\ pidx < Len(prefixes)
  /\ pidx' = pidx + 1
  /\ futs' = [i \in 1..LastHost |-> Queued]
  /\ UNCHANGED <<prefixes, hits, dpc, result, netFailed, matched, probed,
                 clientVars, pairVars, cfgVars, uiVars>>

\* a free worker takes the oldest queued candidate
start_probe(i) ==
  /\ dpc = "sweep"
  /\ i \in DOMAIN futs
  /\ futs[i].st = "queued"
  /\ \A j \in DOMAIN futs : j < i => futs[j].st # "queued"
  /\ Cardinality(Running) < MaxWorkers
  /\ futs' = [futs EXCEPT ![i].st = "running"]
  /\ UNCHANGED <<prefixes, pidx, hits, dpc, result, netFailed, matched, probed,
                 clientVars, pairVars, cfgVars, uiVars>>

\* probe(ip) returns, or its request timed out
finish_probe(i, net) ==
  LET ip == Candidate(prefixes[pidx], i)
  IN  /\ dpc = "sweep"
      /\ i \in DOMAIN futs
      /\ futs[i].st = "running"
      /\ futs' = [futs EXCEPT ![i] = [st |-> "done", res |-> probe(ip, net)]]
      /\ probed' = probed \cup {ip}
      /\ netFailed' = (netFailed \/ net.raises)
      /\ matched' = IF ~net.raises /\ net.ok
                       /\ ((net.philip /\ net.bridge) \/ net.ipbridge)
                    THEN matched \cup {ip} ELSE matched
      /\ UNCHANGED <<prefixes, pidx, hits, dpc, result, clientVars, pairVars, cfgVars, uiVars>>

\* for fut in as_completed(futs): ip = fut.result(); if ip: hits.add(ip)
take_result(i) ==
  /\ dpc = "sweep"
  /\ i \in DOMAIN futs
  /\ futs[i].st = "done"
  /\ futs' = [futs EXCEPT ![i].st = "taken"]
  /\ IF futs[i].res.kind = "exc"
     THEN dpc' = "raised" /\ UNCHANGED hits
     ELSE /\ UNCHANGED dpc
          /\ hits' = IF futs[i].res.ip # None THEN hits \cup {futs[i].res.ip}
                     ELSE hits
  /\ UNCHANGED <<prefixes, pidx, result, netFailed, matched, probed,
                 clientVars, pairVars, cfgVars, uiVars>>

\* return sorted(hits)
finish ==
  /\ dpc = "sweep"
  /\ AllTaken
  /\ pidx = Len(prefixes)
  /\ result' = sorted(hits)
  /\ dpc' = "done"
  /\ UNCHANGED <<prefixes, pidx, futs, hits, netFailed, matched, probed,
                 clientVars, pairVars, cfgVars, uiVars>>

NextDiscovery ==
  \/ \E sock \in Socks : begin(sock)
  \/ submit_prefix
  \/ \E i \in 1..LastHost : start_probe(i)
  \/ \E i \in 1..LastHost : \E net \in NetOutcomes : finish_probe(i, net)
  \/ \E i \in 1..LastHost : take_result(i)
  \/ finish

SpecDiscovery == InitDiscovery /\ [][NextDiscovery]_vars

\* every request of a probe ends within its timeout, the pool keeps running
\* queued probes and the calling thread keeps taking results
FairSpecDiscovery == SpecDiscovery /\ WF_vars(NextDiscovery)

(***************************************************************************)
(* Properties of discovery                                                 *)
(***************************************************************************)
Range(seq) == {seq[i] : i \in 1..Len(seq)}

AllCandidates ==
  {Candidate(prefixes[k], i) : k \in 1..Len(prefixes), i \in 1..LastHost}

\* C6: whatever the order in which the probes complete, discover_bridges
\* returns exactly the candidates whose probe matched, each once, in
\* ascending (string) order; the list is thereby determined by the probe
\* results alone.
C6_DiscoveryDeterminism ==
  dpc = "done" =>
    /\ Range(result) = matched
    /\ \A i \in 1..(Len(result) - 1) : StrLess(result[i], result[i + 1])

\* hits of two prefixes, returned in an order other than the sweep's
C6_Witness ==
  /\ dpc = "done"
  /\ Len(prefixes) = 3
  /\ Len(result) = 2
  /\ result[1] = Candidate(prefixes[3], 2)
  /\ result[2] = Candidate(prefixes[1], 1)

\* C7: failed or timed-out probes never abort the sweep nor raise out of
\* discover_bridges: the sweep never raises and, every probe returning or
\* timing out, it ends; when it has ended every host of every prefix has
\* been probed and every candidate whose probe matched is in the result.
C7_ProbeIsolation ==
  /\ [](dpc # "raised")
  /\ [](dpc = "done" => (probed = AllCandidates /\ matched \subseteq Range(result)))
  /\ <>(dpc = "done")

C7_Witness ==
  /\ dpc = "done"
  /\ netFailed
  /\ Len(prefixes) = 3
  /\ Cardinality(probed) = 3 * LastHost
  /\ matched # {}
  /\ matched \subseteq Range(result)

(***************************************************************************)
(* SpecConfig: the config file and load_config.  The file is missing,      *)
(* unreadable, or holds a text; json.loads of the text fails ("garbage")   *)
(* or yields an object, an array, a string or another scalar.  The members *)
(* of an object and the elements of an array are kept in file order.  An   *)
(* element is a pair when dict.update can take it as a key and a value (a  *)
(* two-element list with a hashable first element, a two-character         *)
(* string); every other element, and every character of a top-level        *)
(* string, is not.                                                         *)
(***************************************************************************)
JStr(s) == [t |-> "str", s |-> s]
JNum == [t |-> "num", s |-> <<>>]
FileVals == {JStr(<<"f">>), JNum}
FileKeys == {"bridge_ip", "username", "a"}

Pair(k, v) == [pair |-> TRUE, k |-> k, v |-> v]
NonPair == [pair |-> FALSE, k |-> "", v |-> JNum]
Pairs == {Pair(k, v) : k \in FileKeys, v \in FileVals}

SeqsUpTo(S, n) == UNION {[1..m -> S] : m \in 0..n}

Text(kind, elems) == [state |-> "text", kind |-> kind, elems |-> elems]
Unreadable == [state |-> "unreadable", kind |-> "none", elems |-> <<>>]

Files ==
  {Absent, Unreadable, Text("garbage", <<>>), Text("scalar", <<>>)}
  \cup {Text("object", e) : e \in SeqsUpTo(Pairs, MaxElems)}
  \cup {Text("array", e) : e \in SeqsUpTo(Pairs \cup {NonPair}, MaxElems)}
  \cup {Text("string", e) : e \in SeqsUpTo({NonPair}, 1)}

EnvIp == <<"1", "0", ".", "0", ".", "0", ".", "9">>
EnvUser == <<"e", "n", "v">>
SetTo(s) == [set |-> TRUE, s |-> s]
Envs == [HUE_BRIDGE_IP : {Unset, SetTo(EnvIp)}, HUE_USERNAME : {Unset, SetTo(EnvUser)}]

\* os.environ.get(name, default)
environ_get(v, default) == IF v.set THEN v.s ELSE default

\* d[k] = v
SetItem(d, k, v) == [x \in (DOMAIN d) \cup {k} |-> IF x = k THEN v ELSE d[x]]

\* dict.update over a sequence of elements: the items before the first
\* element that is not a pair are stored, then the update raises
RECURSIVE update_from(_, _, _)
update_from(d, elems, i) ==
  IF i > Len(elems) THEN [raised |-> FALSE, d |-> d]
  ELSE IF ~elems[i].pair THEN [raised |-> TRUE, d |-> d]
  ELSE update_from(SetItem(d, elems[i].k, elems[i].v), elems, i + 1)

\* the try block of load_config on a file that exists:
\* cfg.update(json.loads(CONFIG_PATH.read_text()))
read_and_update(d, f) ==
  IF f.state = "unreadable" \/ f.kind \in {"garbage", "scalar"}
  THEN [raised |-> TRUE, d |-> d]
  ELSE update_from(d, f.elems, 1)

env_fallback(d, e) ==
  SetItem(SetItem(d, "bridge_ip", JStr(environ_get(e.HUE_BRIDGE_IP, <<>>))),
          "username", JStr(environ_get(e.HUE_USERNAME, <<>>)))

Loaded(d) == [kind |-> "return", cfg |-> d]

load_config(f, e) ==
  LET cfg == [k \in {"bridge_ip", "username"} |-> JStr(<<>>)]
      tried == read_and_update(cfg, f)
  IN  IF f.state = "missing" THEN Loaded(env_fallback(cfg, e))
      ELSE IF tried.raised THEN Loaded(env_fallback(tried.d, e))
      ELSE Loaded(tried.d)

\* the text save_config writes
saved_file(c) ==
  Text("object", <<Pair("bridge_ip", JStr(c.bridge_ip)),
                   Pair("username", JStr(c.username))>>)

InitConfig ==
  /\ ClientIdle /\ config = EmptyConfig /\ PairIdle /\ DiscIdle /\ UiIdle
  /\ file \in Files
  /\ env \in Envs
  /\ loaded = NotLoaded
  /\ lpc = "start"

Call_save_config(bridge_ip, username) ==
  /\ lpc = "start"
  /\ file' = saved_file(save_config(bridge_ip, username))
  /\ lpc' = "saved"
  /\ UNCHANGED <<env, loaded, clientVars, pairVars, discVars, uiVars>>

Call_load_config ==
  /\ lpc \in {"start", "saved"}
  /\ loaded' = load_config(file, env)
  /\ lpc' = "done"
  /\ UNCHANGED <<file, env, clientVars, pairVars, discVars, uiVars>>

NextConfig ==
  \/ \E u \in {<<>>, Abc} : Call_save_config(BridgeIp, u)
  \/ Call_load_config

SpecConfig == InitConfig /\ [][NextConfig]_vars

BadFile(f) == f.state \in {"missing", "unreadable"} \/ f.kind # "object"
EnvConfig(e) ==
  [k \in {"bridge_ip", "username"} |->
     IF k = "bridge_ip" THEN JStr(environ_get(e.HUE_BRIDGE_IP, <<>>))
     ELSE JStr(environ_get(e.HUE_USERNAME, <<>>))]

\* C11: load_config returns, never raises, and its result has both
\* bridge_ip and username; when the file is missing, unreadable or does not
\* hold a JSON object, the result is exactly the two fields taken from the
\* environment variables (empty string when unset), with nothing of the
\* file left in it.
C11_LoadConfigFallback ==
  lpc = "done" =>
    /\ loaded.kind = "return"
    /\ {"bridge_ip", "username"} \subseteq DOMAIN loaded.cfg
    /\ BadFile(file) => loaded.cfg = EnvConfig(env)

(***************************************************************************)
(* The rooms and lights screens.  A fetch starts a worker thread; the      *)
(* worker hands its result to the UI thread with Clock.schedule_once, and  *)
(* the UI thread runs the scheduled callbacks one at a time, in the order  *)
(* they were scheduled.  workers holds one record per started thread,      *)
(* clock the callbacks not yet run.  The fields ran and applied of a       *)
(* worker record observe what its assign callback did.  Widgets, paging    *)
(* and the status label are left out.                                      *)
(***************************************************************************)
Callback(fn, t) == [fn |-> fn, t |-> t]

\* x["name"].lower() of the names the payloads use, by position in string
\* order; a default name is followed by its id
NameRank(text) ==
  CASE text = "Attic" -> 1
    [] text = "Den" -> 2
    [] text = "Lamp" -> 3
    [] text = "Light" -> 4
    [] text = "Room" -> 5
    [] OTHER -> 6

ItemOf(i, d) ==
  [id |-> i, name |-> d.name, on |-> d.on, bri |-> d.bri,
   supports_color |-> d.supports_color]

\* the order of items.sort(key=lambda x: x["name"].lower()); equal names
\* keep the order of the mapping, which lists ids in ascending order
ItemLess(a, b) ==
  \/ NameRank(a.name.text) < NameRank(b.name.text)
  \/ /\ a.name.text = b.name.text
     /\ \/ StrLess(a.name.id, b.name.id)
        \/ a.name.id = b.name.id /\ a.id < b.id

\* items of work(): one entry per key of details, then the sort
to_items(details) ==
  LET ids == DOMAIN details
      before(i) == {j \in ids : ItemLess(ItemOf(j, details[j]), ItemOf(i, details[i]))}
  IN  [k \in 1..Cardinality(ids) |->
         LET i == CHOOSE x \in ids : Cardinality(before(x)) = k - 1
         IN  ItemOf(i, details[i])]

\* groups the bridge may report while the rooms screen is open
Den(any_on) ==
  Group("Room", TRUE, any_on, TRUE, any_on, NumBri(254), FALSE, "absent", TRUE, <<K3>>)
Attic == [Den("false") EXCEPT !.name = "Attic", !.lights = <<K7>>]
RoomsAnswers ==
  { NetErr, ErrDictResp(Unauthorized),
    DictResp(K3 :> Den("true")),
    DictResp(K3 :> Den("false") @@ K7 :> Attic) }

NewFetch(gen) ==
  [gen |-> gen, room |-> 0 - 1, pc |-> "work", failed |-> FALSE, items |-> <<>>,
   ran |-> FALSE, applied |-> FALSE]

InitRooms ==
  /\ ClientIdle /\ PairIdle /\ DiscIdle /\ CfgIdle /\ UiIdle
  /\ config = PairedConfig

\* MainScreen.fetch_rooms_async, up to the start of the thread
fetch_rooms_async ==
  /\ Len(workers) < MaxFetches
  /\ main' = [main EXCEPT !.loading_rooms = TRUE, !.gen_rooms = main.gen_rooms + 1]
  /\ workers' = Append(workers, NewFetch(main.gen_rooms + 1))
  /\ UNCHANGED <<clock, room_lights, current, clientVars, pairVars, discVars, cfgVars>>

\* work(): the fetch, the items, and the callback it schedules
work_rooms(t, resp) ==
  LET w == workers[t]
      o == list_rooms_detailed(config, resp)
  IN  /\ w.pc = "work"
      /\ IF o.ret.kind = "return"
         THEN /\ workers' = [workers EXCEPT ![t] =
                   [w EXCEPT !.pc = "finally", !.items = to_items(o.ret.value)]]
              /\ clock' = Append(clock, Callback("assign", t))
         ELSE /\ workers' = [workers EXCEPT ![t] =
                   [w EXCEPT !.pc = "finally", !.failed = TRUE]]
              /\ clock' = Append(clock, Callback("show_message", t))
      /\ UNCHANGED <<main, room_lights, current, clientVars, pairVars, discVars, cfgVars>>

\* work(): the finally clause
finally_rooms(t) ==
  /\ workers[t].pc = "finally"
  /\ workers' = [workers EXCEPT ![t].pc = "done"]
  /\ clock' = Append(clock, Callback("loading_off", t))
  /\ UNCHANGED <<main, room_lights, current, clientVars, pairVars, discVars, cfgVars>>

\* a variant of assign() without the generation test
assign_rooms_unguarded(t) ==
  /\ clock # <<>> /\ Head(clock) = Callback("assign", t)
  /\ clock' = Tail(clock)
  /\ main' = [main EXCEPT !.rooms = workers[t].items]
  /\ workers' = [workers EXCEPT ![t].ran = TRUE, ![t].applied = TRUE]
  /\ UNCHANGED <<room_lights, current, clientVars, pairVars, discVars, cfgVars>>

\* assign(), run by the clock on the UI thread
assign_rooms(t) ==
  /\ clock # <<>> /\ Head(clock) = Callback("assign", t)
  /\ clock' = Tail(clock)
  /\ IF workers[t].gen # main.gen_rooms
     THEN /\ workers' = [workers EXCEPT ![t].ran = TRUE]
          /\ UNCHANGED main
     ELSE /\ main' = [main EXCEPT !.rooms = workers[t].items]
          /\ workers' = [workers EXCEPT ![t].ran = TRUE, ![t].applied = TRUE]
  /\ UNCHANGED <<room_lights, current, clientVars, pairVars, discVars, cfgVars>>

\* the scheduled show_message(f"Rooms error: {e}", 3)
show_message(t) ==
  /\ clock # <<>> /\ Head(clock) = Callback("show_message", t)
  /\ clock' = Tail(clock)
  /\ UNCHANGED <<workers, main, room_lights, current, clientVars, pairVars, discVars, cfgVars>>

\* the scheduled setattr(self, "loading_rooms", False)
loading_rooms_off(t) ==
  /\ clock # <<>> /\ Head(clock) = Callback("loading_off", t)
  /\ clock' = Tail(clock)
  /\ main' = [main EXCEPT !.loading_rooms = FALSE]
  /\ UNCHANGED <<workers, room_lights, current, clientVars, pairVars, discVars, cfgVars>>

NextRooms ==
  \/ fetch_rooms_async
  \/ \E t \in 1..Len(workers) : \E resp \in RoomsAnswers : work_rooms(t, resp)
  \/ \E t \in 1..Len(workers) : finally_rooms(t)
  \/ \E t \in 1..Len(workers) : assign_rooms(t)
  \/ \E t \in 1..Len(workers) : show_message(t)
  \/ \E t \in 1..Len(workers) : loading_rooms_off(t)

SpecRooms == InitRooms /\ [][NextRooms]_vars

Latest == Len(workers)

\* C12: the assign callback of a fetch writes its result to rooms only when
\* no later fetch_rooms_async has been started by then, and once the
\* latest-started fetch has been assigned rooms keeps that result whatever
\* callbacks of earlier fetches run afterwards.
C12_StaleFetchDiscarded ==
  /\ [][\A t \in 1..Len(workers) :
          (~workers[t].applied /\ workers'[t].applied) =>
            /\ t = Latest
            /\ main'.rooms = workers[t].items]_vars
  /\ [](Latest > 0 /\ workers[Latest].applied =>
          main.rooms = workers[Latest].items)

\* an earlier fetch answered after a later one was started: its callback ran
\* and left rooms alone, and rooms holds the different result of the latest
C12_Witness ==
  /\ Latest >= 2
  /\ workers[1].ran /\ ~workers[1].applied /\ ~workers[1].failed
  /\ workers[Latest].applied
  /\ workers[1].items # workers[Latest].items
  /\ main.rooms = workers[Latest].items
  /\ Len(main.rooms) = 2

(***************************************************************************)
(* SpecLights: the lights screen.  HueApp.open_room sets the room, starts  *)
(* a fetch, and shows the screen, whose on_pre_enter starts a second       *)
(* fetch.  A worker reads self.room_id when it calls                       *)
(* list_lights_detailed_for_room, which is a step of its own because the   *)
(* UI thread runs between the start of the thread and that call.  The      *)
(* bridge holds two rooms with one light each.  room_name follows room_id  *)
(* and is left out.                                                        *)
(***************************************************************************)
Lamp(on) == Light(TRUE, TRUE, on, NumBri(254), FALSE, "absent")
HomeGroups == K3 :> Den("true") @@ K7 :> Attic
HomeLights == K3 :> Lamp("true") @@ K7 :> Lamp("false")
RoomIds == {3, 7}

\* what the bridge may answer to the two GETs of a fetch for a room
LightsAnswers(rid) ==
  { <<NetErr, NetErr>>,
    <<DictResp(HomeGroups[StrOfInt(rid)]), NetErr>>,
    <<DictResp(HomeGroups[StrOfInt(rid)]), DictResp(HomeLights)>> }

InitLights ==
  /\ ClientIdle /\ PairIdle /\ DiscIdle /\ CfgIdle /\ UiIdle
  /\ config = PairedConfig

\* RoomLightsScreen.set_room, on the pair of the screen and the threads
set_room(st, rid) == [st EXCEPT !.room_lights.room_id = rid]

\* RoomLightsScreen.fetch_lights_async, up to the start of the thread
fetch_lights_async(st) ==
  IF st.room_lights.room_id < 0 THEN st
  ELSE [st EXCEPT !.room_lights.loading = TRUE,
                  !.workers = Append(@, NewFetch(0))]

\* RoomLightsScreen.on_pre_enter
on_pre_enter_lights(st) == fetch_lights_async(st)

\* HueApp.open_room from a room tile of the main screen
open_room(rid) ==
  LET st == on_pre_enter_lights(fetch_lights_async(set_room(
              [room_lights |-> room_lights, workers |-> workers], rid)))
  IN  /\ current = "main"
      /\ Len(st.workers) <= MaxThreads
      /\ room_lights' = st.room_lights
      /\ workers' = st.workers
      /\ current' = "room_lights"
      /\ UNCHANGED <<clock, main, clientVars, pairVars, discVars, cfgVars>>

\* RoomLightsScreen.go_back
go_back ==
  /\ current = "room_lights"
  /\ current' = "main"
  /\ UNCHANGED <<clock, workers, main, room_lights, clientVars, pairVars,
                 discVars, cfgVars>>

\* work(): the argument self.room_id of list_lights_detailed_for_room
read_room_id(t) ==
  /\ workers[t].pc = "work"
  /\ workers' = [workers EXCEPT ![t].pc = "fetching",
                                ![t].room = room_lights.room_id]
  /\ UNCHANGED <<clock, main, room_lights, current, clientVars, pairVars,
                 discVars, cfgVars>>

\* work(): the fetch, the items, and the callbacks it schedules.  The
\* schedule_once of the finally clause is taken in the same step: it only
\* resets loading, whose callback commutes with those of other workers.
work_lights(t, resps) ==
  LET w == workers[t]
      o == list_lights_detailed_for_room(config, w.room, resps[1], resps[2])
  IN  /\ w.pc = "fetching"
      /\ IF o.ret.kind = "return"
         THEN /\ workers' = [workers EXCEPT ![t] =
                   [w EXCEPT !.pc = "done", !.items = to_items(o.ret.value)]]
              /\ clock' = clock \o <<Callback("assign", t),
                                     Callback("loading_off", t)>>
         ELSE /\ workers' = [workers EXCEPT ![t] =
                   [w EXCEPT !.pc = "done", !.failed = TRUE]]
              /\ clock' = clock \o <<Callback("status", t),
                                     Callback("loading_off", t)>>
      /\ UNCHANGED <<main, room_lights, current, clientVars, pairVars,
                     discVars, cfgVars>>

\* assign(), run by the clock on the UI thread
assign_lights(t) ==
  /\ clock # <<>> /\ Head(clock) = Callback("assign", t)
  /\ clock' = Tail(clock)
  /\ room_lights' = [room_lights EXCEPT !.lights = workers[t].items]
  /\ workers' = [workers EXCEPT ![t].ran = TRUE, ![t].applied = TRUE]
  /\ UNCHANGED <<main, current, clientVars, pairVars, discVars, cfgVars>>

\* the scheduled setattr(self.ids.status_lbl, "text", f"Lights error: {e}")
lights_error(t) ==
  /\ clock # <<>> /\ Head(clock) = Callback("status", t)
  /\ clock' = Tail(clock)
  /\ UNCHANGED <<workers, main, room_lights, current, clientVars, pairVars,
                 discVars, cfgVars>>

\* the scheduled setattr(self, "loading", False)
loading_off(t) ==
  /\ clock # <<>> /\ Head(clock) = Callback("loading_off", t)
  /\ clock' = Tail(clock)
  /\ room_lights' = [room_lights EXCEPT !.loading = FALSE]
  /\ UNCHANGED <<workers, main, current, clientVars, pairVars, discVars, cfgVars>>

NextLights ==
  \/ \E rid \in RoomIds : open_room(rid)
  \/ go_back
  \/ \E t \in 1..Len(workers) : read_room_id(t)
  \/ \E t \in {i \in 1..Len(workers) : workers[i].pc = "fetching"} :
       \E resps \in LightsAnswers(workers[t].room) : work_lights(t, resps)
  \/ \E t \in 1..Len(workers) : assign_lights(t)
  \/ \E t \in 1..Len(workers) : lights_error(t)
  \/ \E t \in 1..Len(workers) : loading_off(t)

SpecLights == InitLights /\ [][NextLights]_vars

\* every started fetch has run to its end, callbacks included
AllFetchesCompleted ==
  /\ workers # <<>>
  /\ \A t \in 1..Len(workers) : workers[t].pc = "done"
  /\ clock = <<>>

\* the items the screen shows for a room of the bridge
LightsOfRoom(rid) ==
  to_items(list_lights_detailed_for_room(config, rid,
             DictResp(HomeGroups[StrOfInt(rid)]), DictResp(HomeLights)).ret.value)

\* C13: once every started fetch has completed, lights holds the lights of
\* the room whose id is the current room_id, never those of a room opened
\* before.  Stated for the runs in which no fetch failed, so that a
\* violation is a matter of interleaving alone.
C13_LightsOfCurrentRoom ==
  (AllFetchesCompleted /\ \A t \in 1..Len(workers) : ~workers[t].failed) =>
    room_lights.lights = LightsOfRoom(room_lights.room_id)

=============================================================================
